---- MODULE Spec2Model ----
(***************************************************************************)
(* Model of the two batch converters of this repository:                   *)
(*   wwise_wav2bnk_macos.py   Worker (run, run_cli, _resolve_console,      *)
(*                            generate_import_json), started from the      *)
(*                            command line (__main__) or from App._run;    *)
(*   wwise_wav2bnk_window.py  WwiseBatchWorker (run, _run, _create_events, *)
(*                            _build_import_json), started from main()     *)
(*                            (--ci) or from GUI._run.                     *)
(* One behaviour is one pipeline run.  The file system and the request are *)
(* chosen in Init and do not change during the run; every external process *)
(* launch is one step whose outcome (exit status, or failure to launch) is *)
(* chosen nondeterministically.                                            *)
(***************************************************************************)
EXTENDS Integers, Sequences, FiniteSets, TLC

\* ------------------------------------------------------------------ bounds
MaxTargets == 2      \* longest target (platform) list of a request
MaxFiles == 2        \* most files in the source tree
MaxManifestFiles == 3  \* most files in a tree whose manifest alone is built
MaxLines == 2          \* most lines the child processes of a run write
MaxStages == 2         \* most invocations of a run of the process runner alone

\* ------------------------------------------------------- file contents
\* A file's content is a sequence of fragments; a substring test is a test
\* for a contiguous run of fragments.  Every fragment has its length in
\* bytes, so that a bounded read returns a prefix of the content.
TokSize(t) ==
  CASE t = "wine" -> 4
    [] t = "wrapper" -> 7
    [] t = "loader" -> 6
    [] t = ".exe" -> 4
    [] t = "WwiseConsole" -> 12
    [] t = "\\" -> 1
    [] t = "Program Files\\Audiokinetic" -> 25
    [] t = "#!/bin/sh" -> 9
    [] t = "MachO" -> 5
    [] t = "PAD64K" -> 65536
    [] t = "PAD1M" -> 1048576
    [] OTHER -> 1

RECURSIVE SizeOf(_)
SizeOf(s) == IF s = <<>> THEN 0 ELSE TokSize(Head(s)) + SizeOf(Tail(s))

\* fh.read(cap): the longest prefix of whole fragments that fits in cap bytes
ReadPrefix(s, cap) ==
  LET fits == {n \in 0..Len(s) : SizeOf(SubSeq(s, 1, n)) <= cap}
      n == CHOOSE k \in fits : \A j \in fits : j <= k
  IN SubSeq(s, 1, n)

\* Python's  m in s  for strings and bytes
Contains(s, m) ==
  \E i \in 1..(Len(s) - Len(m) + 1) : SubSeq(s, i, i + Len(m) - 1) = m

M_wine == <<"wine">>
M_winewrapper == <<"wine", "wrapper">>
M_winewrapper_exe == <<"wine", "wrapper", ".exe">>
M_WwiseConsole_exe == <<"WwiseConsole", ".exe">>
M_wineloader == <<"wine", "loader">>
M_ProgramFiles1 == <<"\\", "Program Files\\Audiokinetic">>
M_ProgramFiles2 == <<"\\", "\\", "Program Files\\Audiokinetic">>

ResolveChunk == 1048576   \* bf.read(1024 * 1024) in _resolve_console
GateChunk == 1048576      \* bf.read(1024*1024) in Worker.run
SniffChunk == 65536       \* fh.read(1024 * 64) in discover_console


\* ------------------------------------------------------------ file system
\* A path is its directory parts, the stem of its last part and the suffix
\* of its last part (Path.parts, Path.stem, Path.suffix).
AppRoot == <<"/", "Applications", "Audiokinetic", "Wwise2024", "Wwise.app">>
MacOSDir == AppRoot \o <<"Contents", "MacOS">>
ToolsDir == AppRoot \o <<"Contents", "Tools">>
ToolsScript == [dir |-> ToolsDir, stem |-> "WwiseConsole", ext |-> ".sh"]
BundleBinA == [dir |-> MacOSDir, stem |-> "Wwise", ext |-> ""]
BundleBinB == [dir |-> MacOSDir, stem |-> "WwiseConsole", ext |-> ""]
LooseScript == [dir |-> <<"/", "opt", "wwise">>, stem |-> "WwiseConsole", ext |-> ".sh"]
LooseBin == [dir |-> <<"/", "opt", "wwise">>, stem |-> "WwiseConsole", ext |-> ""]
Files == {ToolsScript, BundleBinA, BundleBinB, LooseScript, LooseBin}

Absent == [kind |-> "none", exec |-> FALSE, readable |-> FALSE, content |-> <<>>]
RegularFile(c, x, r) == [kind |-> "file", exec |-> x, readable |-> r, content |-> c]

VARIABLES
  fs,            \* fs.attr[f]: what is at path f;  fs.macos: Contents/MacOS as
                 \* iterdir() lists it;  fs.macosExists
  prog,          \* "macos" | "window": which of the two tools runs
  entry,         \* "cli" | "gui": how the run was started
  console,       \* Worker.console / WwiseBatchWorker.console
  projectExists, \* os.path.exists(project)
  wavKind,       \* what is at wav_dir / input: "none" | "file" | "dir"
  tree,          \* the files under the source directory, in os.walk order
  wav_dir,       \* the source directory as it was supplied, as path pieces
  platforms,     \* the ordered target list
  dry_run,       \* Worker.dry_run
  force_wine,    \* Worker.force_wine
  create_events, \* WwiseBatchWorker.create_events
  event_pattern, \* WwiseBatchWorker.event_pattern, as its pieces
  auto_bankname, \* WwiseBatchWorker.auto_bankname
  logOk,         \* Logger.write succeeds (the log file can be appended)
  tmpOk,         \* the transient manifest file can be written
  waapi,         \* the RPC client: "none" (not installed), "down", "up"
  pc,            \* position of the run
  imports,       \* Worker.imports / WwiseBatchWorker.wavs: the manifest entries
  evIdx,         \* next entry of the derived-object loop
  platIdx,       \* next entry of the target loop
  popen,         \* the subprocess.Popen calls made so far, in order, each with
                 \* how it ended: "exit0", "exit1" or "raise" (nothing started)
  simulated,     \* the dry-run records written so far, in order
  log,           \* terminal and error records written to the logger
  result,        \* what run() returned: "none" while running
  exitCode,      \* sys.exit status of the CLI entry point, -1 while running
  cancel_flag,   \* WwiseBatchWorker.cancel_flag.is_set()
  soundbank,     \* WwiseBatchWorker.soundbank
  resolved,      \* what each _resolve_console call of run_cli returned, in order
  disc,          \* discover_console: the installations, the candidates left, the result
  gui,           \* the window of the GUI: the runs it started, their manifest
                 \* files, and who wrote through which logger
  proc           \* one child process and the runner that streams its output

inputs == <<fs, prog, entry, console, projectExists, wavKind, tree, wav_dir, platforms,
            dry_run, force_wine, create_events, event_pattern, auto_bankname, waapi,
            logOk, tmpOk>>
vars == <<fs, prog, entry, console, projectExists, wavKind, tree, wav_dir, platforms,
          dry_run, force_wine, create_events, event_pattern, auto_bankname, waapi,
          logOk, tmpOk, soundbank,
          pc, imports, evIdx, platIdx, popen, simulated, log, result, exitCode,
          cancel_flag, resolved, disc, gui, proc>>

\* os.path.exists / Path.exists, Path.is_file, os.access(p, os.X_OK)
PathExists(p) == fs.attr[p].kind /= "none"
IsFile(p) == fs.attr[p].kind = "file"
IsExecutable(p) == fs.attr[p].kind /= "none" /\ fs.attr[p].exec
CanRead(p) == fs.attr[p].kind = "file" /\ fs.attr[p].readable

\* Path.parts of a file path
Parts(p) == p.dir \o <<p.stem>>
InBundle(p) == \E i \in 1..Len(Parts(p)) : Parts(p)[i] = "Wwise.app"
\* wwise_app / 'Contents' / 'MacOS' for the first 'Wwise.app' part
BundleMacOS(p) ==
  LET idx == CHOOSE i \in 1..Len(Parts(p)) :
               /\ Parts(p)[i] = "Wwise.app"
               /\ \A j \in 1..(i - 1) : Parts(p)[j] /= "Wwise.app"
  IN SubSeq(Parts(p), 1, idx) \o <<"Contents", "MacOS">>
DirExists(d) == d = MacOSDir /\ fs.macosExists
IterDir(d) == IF d = MacOSDir THEN fs.macos ELSE <<>>

\* ------------------------------------------------------------- resolver
\* the marker tests of _resolve_console
ScriptDelegates(text) ==
  \/ Contains(text, M_WwiseConsole_exe)
  \/ Contains(text, M_wine)
  \/ Contains(text, M_winewrapper_exe)
BinaryDelegates(chunk) ==
  \/ Contains(chunk, M_winewrapper)
  \/ Contains(chunk, M_WwiseConsole_exe)
  \/ Contains(chunk, M_ProgramFiles2)
SiblingIsClean(cchunk) ==
  /\ ~Contains(cchunk, M_winewrapper)
  /\ ~Contains(cchunk, M_WwiseConsole_exe)

\* the marker test of the sniff of discover_console
SniffDelegates(chunk) ==
  \/ Contains(chunk, M_winewrapper)
  \/ Contains(chunk, M_WwiseConsole_exe)
  \/ Contains(chunk, M_wineloader)

\* script branch: the first executable file of Contents/MacOS, unfiltered
RECURSIVE FirstExecutable(_, _)
FirstExecutable(children, fallback) ==
  IF children = <<>> THEN fallback
  ELSE IF IsFile(Head(children)) /\ IsExecutable(Head(children))
       THEN Head(children)
       ELSE FirstExecutable(Tail(children), fallback)

\* binary branch: the first executable file whose first MiB passes the filter;
\* a child that cannot be read is skipped
RECURSIVE FirstCleanExecutable(_, _)
FirstCleanExecutable(children, fallback) ==
  IF children = <<>> THEN fallback
  ELSE LET child == Head(children) IN
       IF /\ IsFile(child) /\ IsExecutable(child) /\ CanRead(child)
          /\ SiblingIsClean(ReadPrefix(fs.attr[child].content, ResolveChunk))
       THEN child
       ELSE FirstCleanExecutable(Tail(children), fallback)

\* the resolver without the marker test of the script branch
_resolve_console_AlwaysSubstitute(path) ==
  IF ~PathExists(path) THEN path
  ELSE IF path.ext = ".sh" THEN
    IF InBundle(path) /\ DirExists(BundleMacOS(path))
    THEN FirstExecutable(IterDir(BundleMacOS(path)), path)
    ELSE path
  ELSE IF IsExecutable(path) THEN
    IF /\ CanRead(path)
       /\ BinaryDelegates(ReadPrefix(fs.attr[path].content, ResolveChunk))
       /\ InBundle(path) /\ DirExists(BundleMacOS(path))
    THEN FirstCleanExecutable(IterDir(BundleMacOS(path)), path)
    ELSE path
  ELSE path

_resolve_console(path) ==
  IF ~PathExists(path) THEN path
  ELSE IF path.ext = ".sh" THEN
    LET text == IF CanRead(path) THEN fs.attr[path].content ELSE <<>> IN
    IF ScriptDelegates(text) /\ InBundle(path) /\ DirExists(BundleMacOS(path))
    THEN FirstExecutable(IterDir(BundleMacOS(path)), path)
    ELSE path
  ELSE IF IsExecutable(path) THEN
    IF /\ CanRead(path)
       /\ BinaryDelegates(ReadPrefix(fs.attr[path].content, ResolveChunk))
       /\ InBundle(path) /\ DirExists(BundleMacOS(path))
    THEN FirstCleanExecutable(IterDir(BundleMacOS(path)), path)
    ELSE path
  ELSE path

\* the inspection of Worker.run before the import: TRUE when  bad  is set
GateScript(txt) ==
  \/ Contains(txt, M_winewrapper)
  \/ Contains(txt, M_WwiseConsole_exe)
  \/ Contains(txt, M_wine)
GateBinary(chunk) ==
  \/ Contains(chunk, M_winewrapper)
  \/ Contains(chunk, M_WwiseConsole_exe)
  \/ Contains(chunk, M_ProgramFiles1)
\* what the gate gets to see: nothing when the read raises
GateInspected(p) ==
  IF ~PathExists(p) \/ ~CanRead(p) THEN <<>>
  ELSE IF p.ext = ".sh" THEN fs.attr[p].content
  ELSE ReadPrefix(fs.attr[p].content, GateChunk)
\* the inspection with the branch for binaries left out
GateBad_ScriptsOnly(p) ==
  /\ PathExists(p)
  /\ CanRead(p)
  /\ p.ext = ".sh"
  /\ GateScript(GateInspected(p))
GateBad(p) ==
  /\ PathExists(p)
  /\ CanRead(p)
  /\ IF p.ext = ".sh" THEN GateScript(GateInspected(p))
     ELSE GateBinary(GateInspected(p))


\* ------------------------------------------------------------ source tree
\* A file under the source directory: its directory parts relative to the
\* source root, its stem and its suffix.
TopWav == [dir |-> <<>>, stem |-> "a", ext |-> ".wav"]
SubWav == [dir |-> <<"sub">>, stem |-> "a", ext |-> ".WAV"]
TopTxt == [dir |-> <<>>, stem |-> "notes", ext |-> ".txt"]
TreeFiles == {TopWav, SubWav, TopTxt}

\* os.walk is top-down: the files of the root come before those of a
\* subfolder; inside one folder the order is the file system's.
IsProperPrefix(p, q) == Len(p) < Len(q) /\ SubSeq(q, 1, Len(p)) = p
WalkOrdered(t) ==
  \A i, j \in 1..Len(t) : (i < j) => ~IsProperPrefix(t[j].dir, t[i].dir)
Trees ==
  {t \in UNION {[1..n -> TreeFiles] : n \in 0..MaxFiles} :
     /\ \A i, j \in 1..Len(t) : (i /= j) => (t[i] /= t[j])
     /\ WalkOrdered(t)}

\* More files for the runs that only build the manifest: a second file of
\* the root, one that differs from TopWav in the case of its suffix only (a
\* case-sensitive volume), one two folders deep.
TopB == [dir |-> <<>>, stem |-> "b", ext |-> ".wav"]
TopUpper == [dir |-> <<>>, stem |-> "a", ext |-> ".WAV"]
DeepWav == [dir |-> <<"sub", "deep">>, stem |-> "c", ext |-> ".wav"]
ManifestFiles == TreeFiles \cup {TopB, TopUpper, DeepWav}
ManifestTrees ==
  {t \in UNION {[1..n -> ManifestFiles] : n \in 0..MaxManifestFiles} :
     /\ \A i, j \in 1..Len(t) : (i /= j) => (t[i] /= t[j])
     /\ WalkOrdered(t)}

\* str.lower() on the suffixes that occur
Lower(ext) == IF ext \in {".wav", ".WAV", ".Wav"} THEN ".wav" ELSE ext
\* f.lower().endswith(".wav")
IsWav(f) == Lower(f.ext) = ".wav"

\* A string of the program is the sequence of its pieces; a path separator
\* is a piece of its own.
RECURSIVE Join(_, _)
Join(parts, sep) ==
  IF Len(parts) <= 1 THEN parts
  ELSE <<Head(parts), sep>> \o Join(Tail(parts), sep)
\* s.replace(old, new) for a one-character old
Replace(s, old, new) == [i \in 1..Len(s) |-> IF s[i] = old THEN new ELSE s[i]]
\* os.sep (POSIX), and os.path.relpath(root, wav_dir) of a walked folder
os_sep == "/"
relpath(dir) == IF dir = <<>> THEN <<".">> ELSE Join(dir, os_sep)

HierarchyRoot == <<"\\", "Actor-Mixer Hierarchy", "\\", "Auto">>
\* the source directory given as an absolute path, or relative to the
\* working directory
cwd == <<"/", "home">>
AbsWavDir == <<"/", "home", "/", "in">>
RelWavDir == <<"in">>
WavDirs == {AbsWavDir, RelWavDir}
\* os.path.isabs, os.path.abspath
isabs(path) == path /= <<>> /\ Head(path) = "/"
abspath(path) == IF isabs(path) THEN path ELSE cwd \o <<"/">> \o path
\* os.path.join(root, f) for a file of the walk of wav_dir
WalkJoin(f) == wav_dir \o <<os_sep>> \o Join(f.dir \o <<f.stem>>, os_sep) \o <<f.ext>>
\* the entry Worker.generate_import_json appends for one matching file
MacEntry_KeepSeparator(f) ==
  LET rel_path == relpath(f.dir) IN
  [audioFile |-> f, full |-> WalkJoin(f),
   objectPath |-> IF rel_path = <<".">> THEN HierarchyRoot \o <<"\\", f.stem>>
                  ELSE HierarchyRoot \o <<"\\">> \o rel_path \o <<"\\", f.stem>>]
MacEntry(f) ==
  LET rel_path == relpath(f.dir) IN
  [audioFile |-> f, full |-> WalkJoin(f),
   objectPath |-> IF rel_path = <<".">> THEN HierarchyRoot \o <<"\\", f.stem>>
                  ELSE HierarchyRoot \o <<"\\">>
                         \o Replace(rel_path, os_sep, "\\") \o <<"\\", f.stem>>]
RECURSIVE generate_import_json(_)
generate_import_json(files) ==
  IF files = <<>> THEN <<>>
  ELSE IF IsWav(Head(files))
       THEN <<MacEntry(Head(files))>> \o generate_import_json(Tail(files))
       ELSE generate_import_json(Tail(files))

\* wavs = [os.path.join(r, f) for r, _, fs in os.walk(input) for f in fs
\*         if f.lower().endswith('.wav')]
RECURSIVE WalkWavs(_)
WalkWavs(files) ==
  IF files = <<>> THEN <<>>
  ELSE IF IsWav(Head(files)) THEN <<Head(files)>> \o WalkWavs(Tail(files))
       ELSE WalkWavs(Tail(files))
\* the entries of WwiseBatchWorker._build_import_json, one for each of wavs
\* the raw string holds two backslashes before each segment
DEFAULT_OBJECT_ROOT ==
  <<"\\", "\\", "Actor-Mixer Hierarchy", "\\", "\\", "Auto">>
WinEntry(w) ==
  [audioFile |-> w, full |-> abspath(WalkJoin(w)),
   objectPath |-> DEFAULT_OBJECT_ROOT \o <<"\\", w.stem>>]
_build_import_json(wavs) == [i \in 1..Len(wavs) |-> WinEntry(wavs[i])]

\* event_pattern.replace('{name}', name) for a pattern given by its pieces
DEFAULT_EVENT_PATTERN == <<"Play_", "{name}">>
EventName(pattern, name) ==
  [i \in 1..Len(pattern) |-> IF pattern[i] = "{name}" THEN name ELSE pattern[i]]
\* the patterns a request may carry: the default, and one with two placeholders
EventPatterns == {DEFAULT_EVENT_PATTERN, <<"{name}", "_", "{name}">>}
\* pathlib.Path(s).name on POSIX: what follows the last "/" of s
RECURSIVE PosixName(_)
PosixName(s) ==
  IF \E i \in 1..Len(s) : s[i] = "/" THEN PosixName(Tail(s)) ELSE s

\* ------------------------------------------------------------- processes
\* subprocess.Popen of an executable: it raises when the file cannot be
\* started, otherwise the child ends with exit status 0 or not 0.  A shell
\* script is started through bash, which always starts.
Statuses(exe, viaBash) ==
  IF viaBash \/ (IsFile(exe) /\ IsExecutable(exe))
  THEN {"exit0", "exit1"}
  ELSE {"raise"}

Call(exe, viaBash, cmd, arg, st) ==
  [exe |-> exe, bash |-> viaBash, cmd |-> cmd, arg |-> arg, status |-> st]

\* Worker.run_cli(args, desc): resolve, then either write the dry-run record
\* or start the process and wait for it.  Its result is not returned: an
\* exit status is only logged, a failure to launch is caught and logged.
ConsoleToRun == _resolve_console(console)
ViaBash == ConsoleToRun.ext = ".sh"
CliOutcomes == IF dry_run THEN {"dry-run"} ELSE Statuses(ConsoleToRun, ViaBash)
\* run_cli without the return of the dry run
run_cli_NoDryRun(cmd, arg, st) ==
  /\ resolved' = Append(resolved, ConsoleToRun)
  /\ popen' = Append(popen, Call(ConsoleToRun, ViaBash, cmd, arg, st))
  /\ UNCHANGED simulated
\* run_cli starting the requested console, whatever the resolver returned
run_cli_Requested(cmd, arg, st) ==
  /\ resolved' = Append(resolved, ConsoleToRun)
  /\ IF dry_run
     THEN /\ simulated' = Append(simulated, Call(console, console.ext = ".sh", cmd, arg, st))
          /\ UNCHANGED popen
     ELSE /\ popen' = Append(popen, Call(console, console.ext = ".sh", cmd, arg, st))
          /\ UNCHANGED simulated
run_cli(cmd, arg, st) ==
  /\ resolved' = Append(resolved, ConsoleToRun)
  /\ IF dry_run
     THEN /\ simulated' = Append(simulated, Call(ConsoleToRun, ViaBash, cmd, arg, st))
          /\ UNCHANGED popen
     ELSE /\ popen' = Append(popen, Call(ConsoleToRun, ViaBash, cmd, arg, st))
          /\ UNCHANGED simulated
Logged(ev, arg) == [ev |-> ev, arg |-> arg]
RunCliLog(cmd, arg, st) ==
  IF st = "raise" THEN <<Logged("Error running", <<cmd>> \o arg)>> ELSE <<>>

\* A child process as its runner sees it: the lines it has written, those
\* still unread in the pipe, whether it has ended and with which status, and
\* what the runner returned; which invocation of the run it is, and how many
\* children of earlier invocations have not ended yet.
IdleProc ==
  [state |-> "idle", emitted |-> <<>>, pipe |-> <<>>, exited |-> FALSE,
   status |-> "none", ret |-> "none", stage |-> 1, alive |-> 0]

\* ------------------------------------------------------------ the inputs
CleanText == <<"#!/bin/sh">>
WineText == <<"#!/bin/sh", "wine">>
ExeText == <<"#!/bin/sh", "WwiseConsole", ".exe">>
NativeBin == <<"MachO">>
WrapperBin == <<"MachO", "wine", "wrapper">>
SingleSlashBin == <<"MachO", "\\", "Program Files\\Audiokinetic">>
DoubleSlashBin == <<"MachO", "\\", "\\", "Program Files\\Audiokinetic">>
LoaderBin == <<"MachO", "wine", "loader">>
LateWrapperBin == <<"MachO", "PAD1M", "wine", "wrapper">>

ScriptAttrs ==
  {RegularFile(c, TRUE, TRUE) : c \in {CleanText, WineText, ExeText}}
    \cup {RegularFile(WineText, TRUE, FALSE)}
BinAttrs ==
  {RegularFile(c, TRUE, TRUE) :
     c \in {NativeBin, WrapperBin, SingleSlashBin, DoubleSlashBin, LoaderBin,
            LateWrapperBin}}
    \cup {RegularFile(NativeBin, FALSE, TRUE), RegularFile(WrapperBin, TRUE, FALSE)}

\* a file system: what is at each known path, and Contents/MacOS as listed
MkFs(known, listing) ==
  [attr |-> [f \in Files |-> IF f \in DOMAIN known THEN known[f] ELSE Absent],
   macosExists |-> listing /= <<>>,
   macos |-> listing]

\* the console outside any bundle (or missing), a script outside any bundle
LooseScenarios ==
  {[console |-> LooseBin, fs |-> MkFs(LooseBin :> a, <<>>)] : a \in BinAttrs \cup {Absent}}
    \cup {[console |-> LooseScript, fs |-> MkFs(LooseScript :> a, <<>>)] : a \in ScriptAttrs}
\* the launcher script of a bundle whose Contents/MacOS holds one or two binaries
ToolsScenarios ==
  {[console |-> ToolsScript,
    fs |-> MkFs(ToolsScript :> RegularFile(t, TRUE, TRUE) @@ BundleBinA :> RegularFile(a, TRUE, TRUE)
                  @@ BundleBinB :> RegularFile(NativeBin, TRUE, TRUE), l)] :
     t \in {CleanText, WineText}, a \in {NativeBin, WrapperBin},
     l \in {<<BundleBinA>>, <<BundleBinA, BundleBinB>>, <<BundleBinB, BundleBinA>>}}
\* a binary of the bundle itself, beside a second binary
BundleScenarios ==
  {[console |-> BundleBinA,
    fs |-> MkFs(BundleBinA :> RegularFile(a, TRUE, TRUE) @@ BundleBinB :> RegularFile(b, TRUE, TRUE), l)] :
     a \in {NativeBin, WrapperBin, DoubleSlashBin},
     b \in {NativeBin, WrapperBin, DoubleSlashBin},
     l \in {<<BundleBinA, BundleBinB>>, <<BundleBinB, BundleBinA>>}}
Scenarios == LooseScenarios \cup ToolsScenarios \cup BundleScenarios

Targets == {"X", "Y"}
TargetLists == UNION {[1..n -> Targets] : n \in 0..MaxTargets}
\* the platform list box of the GUI and what curselection() can pick from it:
\* distinct entries in the order of the box
PlatformBox == <<"X", "Y">>
BoxIndex(t) == CHOOSE k \in 1..Len(PlatformBox) : PlatformBox[k] = t
GuiSelections ==
  {sel \in TargetLists :
     \A i, j \in 1..Len(sel) : (i < j) => BoxIndex(sel[i]) < BoxIndex(sel[j])}

\* what discover_console returns: "" or the path of a file of an installation
NoConsole == [app |-> "", kind |-> "", idx |-> 0]
\* no discovery under way
NoDisc == [apps |-> <<>>, cands |-> <<>>, state |-> "idle", result |-> NoConsole]
\* the window before its first run: no manifest file, nothing logged
NoGui == [runs |-> <<>>, files |-> <<>>, writes |-> <<>>]
RunInit ==
  /\ pc = "start"
  /\ imports = <<>>
  /\ evIdx = 1
  /\ platIdx = 1
  /\ popen = <<>>
  /\ simulated = <<>>
  /\ log = <<>>
  /\ result = "none"
  /\ exitCode = -1
  /\ cancel_flag = FALSE
  /\ soundbank = "AutoBank"
  /\ resolved = <<>>
  /\ proc = IdleProc

\* wwise_wav2bnk_macos.py: __main__ passes the flags of the command line and
\* a platform list that str.split never leaves empty; App._run constructs
\* the Worker without dry_run and force_wine and replaces an empty selection
MacInit ==
  /\ prog = "macos"
  /\ \E sc \in Scenarios : console = sc.console /\ fs = sc.fs
  /\ entry \in {"cli", "gui"}
  /\ projectExists \in BOOLEAN
  /\ wavKind \in {"none", "file", "dir"}
  /\ tree \in (IF wavKind = "dir" THEN Trees ELSE {<<>>})
  /\ IF entry = "cli"
     THEN /\ platforms \in TargetLists \ {<<>>}
          /\ dry_run \in BOOLEAN
          /\ force_wine \in BOOLEAN
     ELSE /\ platforms \in {IF sel = <<>> THEN <<"macOS">> ELSE sel : sel \in GuiSelections}
          /\ dry_run = FALSE
          /\ force_wine = FALSE
  /\ create_events = TRUE
  /\ event_pattern = DEFAULT_EVENT_PATTERN
  /\ auto_bankname = FALSE
  /\ waapi = "none"
  /\ logOk \in BOOLEAN
  /\ tmpOk \in BOOLEAN


\* wwise_wav2bnk_window.py: main() (--ci) and GUI._run
DirAttr == [kind |-> "dir", exec |-> TRUE, readable |-> FALSE, content |-> <<>>]
WinInit ==
  /\ prog = "window"
  /\ console = LooseBin
  /\ \E a \in {Absent, DirAttr, RegularFile(NativeBin, TRUE, TRUE),
               RegularFile(NativeBin, FALSE, TRUE)} :
       fs = MkFs(LooseBin :> a, <<>>)
  /\ entry \in {"cli", "gui"}
  /\ projectExists \in BOOLEAN
  /\ wavKind \in {"none", "file", "dir"}
  /\ tree \in (IF wavKind = "dir" THEN Trees ELSE {<<>>})
  /\ platforms \in (IF entry = "cli" THEN TargetLists \ {<<>>} ELSE GuiSelections)
  /\ dry_run = FALSE
  /\ force_wine = FALSE
  /\ create_events \in BOOLEAN
  /\ event_pattern \in EventPatterns
  /\ auto_bankname \in (IF entry = "gui" THEN BOOLEAN ELSE {TRUE})
  /\ waapi \in {"none", "down", "up"}
  /\ logOk = TRUE
  /\ tmpOk \in BOOLEAN

Init ==
  RunInit /\ (MacInit \/ WinInit) /\ disc = NoDisc /\ gui = NoGui /\ wav_dir = AbsWavDir

\* ------------------------------------------------------ Worker (macOS tool)
MacFinish ==
  /\ pc' = "done"
  /\ result' = "None"
  /\ exitCode' = IF entry = "cli" THEN 0 ELSE -1
\* an exception leaves run(): the thread, or the command, ends with a traceback
MacRaise ==
  /\ pc' = "done"
  /\ result' = "raised"
  /\ exitCode' = IF entry = "cli" THEN 1 ELSE -1
\* self.logger.write(msg); return
MacAbort(msg) ==
  IF logOk THEN log' = Append(log, Logged(msg, <<>>)) /\ MacFinish
  ELSE UNCHANGED log /\ MacRaise
\* generate_import_json and the safety inspection, then on to the import
MacPrepare ==
  /\ imports' = generate_import_json(tree)
  /\ IF ~tmpOk \/ ~logOk
     THEN UNCHANGED log /\ MacRaise
     ELSE IF GateBad(console) /\ ~force_wine
     THEN MacAbort("Detected that the selected Wwise console delegates")
     ELSE /\ pc' = "import"
          /\ UNCHANGED <<log, result, exitCode>>

\* Worker.run without the check of the project file
MacValidate_NoProjectCheck ==
  /\ prog = "macos" /\ pc = "start"
  /\ IF ~PathExists(console)
     THEN MacAbort("Invalid WwiseConsole.sh path.") /\ UNCHANGED imports
     ELSE IF wavKind /= "dir"
     THEN MacAbort("Invalid WAV folder.") /\ UNCHANGED imports
     ELSE MacPrepare
  /\ UNCHANGED <<inputs, cancel_flag, proc, soundbank, resolved, disc, gui, evIdx, platIdx, popen, simulated>>

\* Worker.run up to the import: validation, manifest, safety inspection
MacValidate ==
  /\ prog = "macos" /\ pc = "start"
  /\ IF ~PathExists(console)
     THEN MacAbort("Invalid WwiseConsole.sh path.") /\ UNCHANGED imports
     ELSE IF ~projectExists
     THEN MacAbort("Invalid project file.") /\ UNCHANGED imports
     ELSE IF wavKind /= "dir"
     THEN MacAbort("Invalid WAV folder.") /\ UNCHANGED imports
     ELSE MacPrepare
  /\ UNCHANGED <<inputs, cancel_flag, proc, soundbank, resolved, disc, gui, evIdx, platIdx, popen, simulated>>

\* the import call of Worker.run
MacImport ==
  /\ prog = "macos" /\ pc = "import"
  /\ \E st \in CliOutcomes :
       /\ run_cli("tab-delimited-import", <<>>, st)
       /\ log' = log \o RunCliLog("tab-delimited-import", <<>>, st)
  /\ pc' = IF imports /= <<>> THEN "events" ELSE "generate"
  /\ UNCHANGED <<inputs, cancel_flag, proc, soundbank, disc, gui, imports, evIdx, platIdx, result, exitCode>>

\* one turn of  for imp in self.imports
MacCreateEvent ==
  /\ prog = "macos" /\ pc = "events"
  /\ LET obj_path == imports[evIdx].objectPath
         event_name == <<"Play_">> \o PosixName(obj_path)
         arg == <<"--name">> \o event_name \o <<"--target">> \o obj_path
     IN \E st \in CliOutcomes :
          /\ run_cli("create-new", arg, st)
          /\ log' = log \o RunCliLog("create-new", arg, st)
  /\ evIdx' = evIdx + 1
  /\ pc' = IF evIdx = Len(imports) THEN "generate" ELSE "events"
  /\ UNCHANGED <<inputs, cancel_flag, proc, soundbank, disc, gui, imports, platIdx, result, exitCode>>

\* the target loop leaving after its first turn
MacGenerate_FirstOnly ==
  /\ prog = "macos" /\ pc = "generate"
  /\ LET plat == platforms[platIdx] IN
     \E st \in CliOutcomes :
       /\ run_cli("generate-soundbank", <<plat>>, st)
       /\ log' = log \o RunCliLog("generate-soundbank", <<plat>>, st)
                     \o <<Logged("All tasks completed successfully.", <<>>)>>
       /\ MacFinish
       /\ UNCHANGED platIdx
  /\ UNCHANGED <<inputs, cancel_flag, proc, soundbank, disc, gui, imports, evIdx>>

\* one turn of  for plat in self.platforms, and the closing record after the last
MacGenerate ==
  /\ prog = "macos" /\ pc = "generate"
  /\ LET plat == platforms[platIdx] IN
     \E st \in CliOutcomes :
       /\ run_cli("generate-soundbank", <<plat>>, st)
       /\ IF platIdx = Len(platforms)
          THEN /\ log' = log \o RunCliLog("generate-soundbank", <<plat>>, st)
                           \o <<Logged("All tasks completed successfully.", <<>>)>>
               /\ MacFinish
               /\ UNCHANGED platIdx
          ELSE /\ log' = log \o RunCliLog("generate-soundbank", <<plat>>, st)
               /\ platIdx' = platIdx + 1
               /\ UNCHANGED <<pc, result, exitCode>>
  /\ UNCHANGED <<inputs, cancel_flag, proc, soundbank, disc, gui, imports, evIdx>>


\* ------------------------------------------- WwiseBatchWorker (Windows tool)
\* GUI._run: the checks of the form, then the worker thread is started
WinGuiRun ==
  /\ prog = "window" /\ entry = "gui" /\ pc = "start"
  /\ IF ~(PathExists(console) /\ projectExists /\ wavKind /= "none")
     THEN /\ log' = Append(log, Logged("Check paths", <<>>))
          /\ pc' = "done"
     ELSE IF WalkWavs(tree) = <<>>
     THEN /\ log' = Append(log, Logged("No files found", <<>>))
          /\ pc' = "done"
     ELSE IF platforms = <<>>
     THEN /\ log' = Append(log, Logged("Select platforms", <<>>))
          /\ pc' = "done"
     ELSE /\ pc' = "win_import"
          /\ UNCHANGED log
  /\ UNCHANGED <<inputs, cancel_flag, proc, soundbank, resolved, disc, gui, imports, evIdx, platIdx, popen, simulated, result, exitCode>>

\* main() with --ci: the console and source checks, then the construction of
\* the worker, which is given twelve arguments where __init__ takes thirteen
\* and so raises TypeError before run() is reached
WinMain ==
  /\ prog = "window" /\ entry = "cli" /\ pc = "start"
  /\ IF ~IsFile(console)
     THEN /\ log' = Append(log, Logged("ERROR: Cannot find valid WwiseConsole.exe.", <<>>))
          /\ exitCode' = 2
     ELSE IF WalkWavs(tree) = <<>>
     THEN /\ log' = Append(log, Logged("ERROR: No WAV files found in input", <<>>))
          /\ exitCode' = 3
     ELSE /\ log' = Append(log, Logged("TypeError", <<>>))
          /\ exitCode' = 1
  /\ pc' = "done"
  /\ UNCHANGED <<inputs, cancel_flag, proc, soundbank, resolved, disc, gui, imports, evIdx, platIdx, popen, simulated, result>>

WinReturn(value) ==
  /\ pc' = "done"
  /\ result' = value

\* WwiseBatchWorker._run(cmd): Popen of the console itself; an exception of
\* Popen is not caught here
WinOutcomes == Statuses(console, FALSE)
_run(cmd, arg, st) == popen' = Append(popen, Call(console, FALSE, cmd, arg, st))

\* WwiseBatchWorker.run up to the check of the import's return code
\* the name of the folder the caller gave as input, and Path(w).parent.name
\* of a wav found below it
InputFolderName == "in"
ParentName(w) == IF w.dir = <<>> THEN InputFolderName ELSE w.dir[Len(w.dir)]
\* if self.auto_bankname: self.soundbank = Path(self.wavs[0]).parent.name
auto_bank_name(wavs) ==
  IF auto_bankname THEN ParentName(wavs[1]) ELSE soundbank

WinImport ==
  /\ prog = "window" /\ pc = "win_import"
  /\ soundbank' = auto_bank_name(WalkWavs(tree))
  /\ imports' = _build_import_json(WalkWavs(tree))
  /\ IF ~tmpOk
     THEN /\ log' = Append(log, Logged("Exception", <<"import.json">>))
          /\ WinReturn("False")
          /\ UNCHANGED popen
     ELSE
     \E st \in WinOutcomes :
       /\ _run("import", <<>>, st)
       /\ IF st = "raise"
          THEN /\ log' = Append(log, Logged("Exception", <<"import">>))
               /\ WinReturn("False")
          ELSE IF st /= "exit0"
          THEN /\ log' = Append(log, Logged("ERROR: import failed", <<>>))
               /\ WinReturn("False")
          ELSE /\ pc' = IF create_events THEN "win_events" ELSE "win_generate"
               /\ UNCHANGED <<log, result>>
  /\ UNCHANGED <<inputs, cancel_flag, proc, resolved, disc, gui, evIdx, platIdx, simulated, exitCode>>

\* WwiseBatchWorker._create_events: RPC calls, no process; failed is the set
\* of entries whose call raises
\* the loop over the entries leaving at the first call that raises
RECURSIVE EventLog_StopAtFailure(_, _, _)
EventLog_StopAtFailure(entries, i, failed) ==
  IF i > Len(entries) THEN <<>>
  ELSE LET evt_name == EventName(event_pattern, entries[i].audioFile.stem) IN
       IF i \in failed THEN <<Logged("Event failed", evt_name)>>
       ELSE <<Logged("Event created", evt_name)>>
              \o EventLog_StopAtFailure(entries, i + 1, failed)
RECURSIVE EventLog(_, _, _)
EventLog(entries, i, failed) ==
  IF i > Len(entries) THEN <<>>
  ELSE LET evt_name == EventName(event_pattern, entries[i].audioFile.stem) IN
       <<Logged(IF i \in failed THEN "Event failed" ELSE "Event created", evt_name)>>
         \o EventLog(entries, i + 1, failed)
\* _create_events letting a missing client or a failed connection end the run
WinCreateEvents_HardFail ==
  /\ prog = "window" /\ pc = "win_events"
  /\ IF waapi = "up"
     THEN /\ \E failed \in SUBSET (1..Len(imports)) :
               log' = log \o EventLog(imports, 1, failed)
          /\ pc' = "win_generate"
          /\ UNCHANGED result
     ELSE /\ log' = Append(log, Logged("Exception", <<"waapi">>))
          /\ WinReturn("False")
  /\ UNCHANGED <<inputs, cancel_flag, proc, soundbank, resolved, disc, gui, imports, evIdx, platIdx, popen, simulated, exitCode>>
WinCreateEvents ==
  /\ prog = "window" /\ pc = "win_events"
  /\ IF waapi = "none"
     THEN log' = Append(log, Logged("WAAPI not available; skip event creation.", <<>>))
     ELSE IF waapi = "down"
     THEN log' = Append(log, Logged("WAAPI connection failed", <<>>))
     ELSE \E failed \in SUBSET (1..Len(imports)) :
            log' = log \o EventLog(imports, 1, failed)
  /\ pc' = "win_generate"
  /\ UNCHANGED <<inputs, cancel_flag, proc, soundbank, resolved, disc, gui, imports, evIdx, platIdx, popen, simulated, result, exitCode>>

\* one turn of  for plat in self.platforms, and the return after the last
WinGenerate ==
  /\ prog = "window" /\ pc = "win_generate"
  /\ LET plat == platforms[platIdx] IN
     \E st \in WinOutcomes :
       /\ _run("generate-soundbank", <<plat>>, st)
       /\ IF st = "raise"
          THEN /\ log' = Append(log, Logged("Exception", <<"generate-soundbank", plat>>))
               /\ WinReturn("False")
               /\ UNCHANGED platIdx
          ELSE IF st /= "exit0"
          THEN /\ log' = Append(log, Logged("ERROR: generation failed for", <<plat>>))
               /\ WinReturn("False")
               /\ UNCHANGED platIdx
          ELSE IF platIdx = Len(platforms)
          THEN /\ log' = log \o <<Logged("Built", <<plat>>),
                                  Logged("All done successfully.", <<>>)>>
               /\ WinReturn("True")
               /\ UNCHANGED platIdx
          ELSE /\ log' = Append(log, Logged("Built", <<plat>>))
               /\ platIdx' = platIdx + 1
               /\ UNCHANGED <<pc, result>>
  /\ UNCHANGED <<inputs, cancel_flag, proc, soundbank, resolved, disc, gui, imports, evIdx, simulated, exitCode>>

\* worker.cancel_flag.set() by another thread while run() is under way
Cancel ==
  /\ prog = "window" /\ pc \in {"win_import", "win_events", "win_generate"}
  /\ ~cancel_flag
  /\ cancel_flag' = TRUE
  /\ UNCHANGED <<inputs, proc, soundbank, resolved, disc, gui, pc, imports, evIdx, platIdx, popen,
                 simulated, log, result, exitCode>>

Next ==
  \/ MacValidate
  \/ MacImport
  \/ MacCreateEvent
  \/ MacGenerate
  \/ WinGuiRun
  \/ WinMain
  \/ WinImport
  \/ WinCreateEvents
  \/ WinGenerate
  \/ Cancel

Spec == Init /\ [][Next]_vars

\* ------------------------------------------------------ the manifest alone
\* The two manifest builders called on their own over a walked source
\* folder: Worker.generate_import_json, and WwiseBatchWorker over the wavs
\* its caller collected (_build_import_json).
ManifestInit ==
  /\ RunInit
  /\ disc = NoDisc
  /\ gui = NoGui
  /\ prog \in {"macos", "window"}
  /\ entry = "gui"
  /\ console = LooseBin
  /\ fs = MkFs(LooseBin :> RegularFile(NativeBin, TRUE, TRUE), <<>>)
  /\ projectExists = TRUE
  /\ wavKind = "dir"
  /\ tree \in ManifestTrees
  /\ wav_dir \in WavDirs
  /\ platforms = <<"X">>
  /\ dry_run = FALSE
  /\ force_wine = FALSE
  /\ create_events = FALSE
  /\ event_pattern = DEFAULT_EVENT_PATTERN
  /\ auto_bankname = FALSE
  /\ waapi = "none"
  /\ logOk = TRUE
  /\ tmpOk = TRUE

BuildMacManifest ==
  /\ prog = "macos" /\ pc = "start"
  /\ imports' = generate_import_json(tree)
  /\ pc' = "built"
  /\ UNCHANGED <<inputs, cancel_flag, proc, soundbank, resolved, disc, gui, evIdx, platIdx, popen, simulated, log, result, exitCode>>

BuildWinManifest ==
  /\ prog = "window" /\ pc = "start"
  /\ imports' = _build_import_json(WalkWavs(tree))
  /\ pc' = "built"
  /\ UNCHANGED <<inputs, cancel_flag, proc, soundbank, resolved, disc, gui, evIdx, platIdx, popen, simulated, log, result, exitCode>>

ManifestNext ==
  \/ BuildMacManifest
  \/ BuildWinManifest

SpecManifest == ManifestInit /\ [][ManifestNext]_vars


\* ------------------------------------------------- the process runner alone
\* WwiseBatchWorker._run and the launching half of Worker.run_cli, one child:
\* the child writes lines into the pipe and ends, the runner reads the pipe
\* line by line into the logger and returns after the end of the output.
OutLines == {<<"ok", "\n">>, <<" ", "warn", " ", "\n">>, <<"\n">>}
\* a line of bytes that the text mode of the pipe cannot decode
BadLine == <<"\\xff", "\n">>
IsSpace(c) == c \in {" ", "\n"}
\* str.strip()
RECURSIVE LStrip(_)
LStrip(s) == IF s /= <<>> /\ IsSpace(Head(s)) THEN LStrip(Tail(s)) ELSE s
RECURSIVE RStrip(_)
RStrip(s) ==
  IF s /= <<>> /\ IsSpace(s[Len(s)]) THEN RStrip(SubSeq(s, 1, Len(s) - 1)) ELSE s
strip(s) == RStrip(LStrip(s))

RunnerInit ==
  /\ RunInit
  /\ disc = NoDisc
  /\ gui = NoGui
  /\ wav_dir = AbsWavDir
  /\ prog \in {"macos", "window"}
  /\ entry = "gui"
  /\ console = LooseBin
  /\ fs = MkFs(LooseBin :> RegularFile(NativeBin, TRUE, TRUE), <<>>)
  /\ projectExists = TRUE
  /\ wavKind = "dir"
  /\ tree = <<TopWav>>
  /\ platforms = <<"X">>
  /\ dry_run = FALSE
  /\ force_wine = FALSE
  /\ create_events = FALSE
  /\ event_pattern = DEFAULT_EVENT_PATTERN
  /\ auto_bankname = FALSE
  /\ waapi = "none"
  /\ logOk = TRUE
  /\ tmpOk = TRUE

runnerFrame == <<inputs, cancel_flag, soundbank, resolved, disc, gui, pc, imports, evIdx, platIdx, popen,
                 simulated, result, exitCode>>

\* subprocess.Popen(..., stdout=PIPE, stderr=STDOUT, text=True)
Popen ==
  /\ proc.state = "idle"
  /\ proc' = [proc EXCEPT !.state = "running"]
  /\ UNCHANGED <<runnerFrame, log>>

\* the child writes one more line to its stdout or stderr
ChildWrite(line) ==
  /\ proc.state = "running" /\ ~proc.exited
  /\ Len(proc.emitted) < MaxLines
  /\ proc' = [proc EXCEPT !.emitted = Append(@, line), !.pipe = Append(@, line)]
  /\ UNCHANGED <<runnerFrame, log>>

\* the child ends with a status
ChildExit ==
  /\ proc.state = "running" /\ ~proc.exited
  /\ \E st \in {"exit0", "exit1"} :
       proc' = [proc EXCEPT !.exited = TRUE, !.status = st]
  /\ UNCHANGED <<runnerFrame, log>>

\* one turn of the read loop: self.logger.write(line.strip())
ForwardLine ==
  /\ proc.state = "running" /\ proc.pipe /= <<>>
  /\ Head(proc.pipe) /= BadLine
  /\ log' = Append(log, Logged("line", strip(Head(proc.pipe))))
  /\ proc' = [proc EXCEPT !.pipe = Tail(@)]
  /\ UNCHANGED runnerFrame

\* the end of the output: _run returns proc.wait(); run_cli waits, logs the
\* return code and falls off its end
WaitReturn ==
  /\ proc.state = "running" /\ proc.pipe = <<>> /\ proc.exited
  /\ IF prog = "window"
     THEN /\ proc' = [proc EXCEPT !.state = "returned", !.ret = proc.status]
          /\ UNCHANGED log
     ELSE /\ proc' = [proc EXCEPT !.state = "returned", !.ret = "None"]
          /\ log' = Append(log, Logged("Done", <<proc.status>>))
  /\ UNCHANGED runnerFrame

\* reading the next line raises UnicodeDecodeError: run_cli catches it, logs
\* it and returns without waiting for the child; out of _run it propagates to
\* run(), which logs it and returns False
ReadError ==
  /\ proc.state = "running" /\ proc.pipe /= <<>>
  /\ Head(proc.pipe) = BadLine
  /\ IF prog = "window"
     THEN /\ proc' = [proc EXCEPT !.state = "raised"]
          /\ log' = Append(log, Logged("Exception", <<"decode">>))
     ELSE /\ proc' = [proc EXCEPT !.state = "returned", !.ret = "None"]
          /\ log' = Append(log, Logged("Error running", <<"decode">>))
  /\ UNCHANGED runnerFrame

\* the caller goes on to its next invocation: Worker.run after every return
\* of run_cli, WwiseBatchWorker.run after a return code of 0
NextStage ==
  /\ proc.state = "returned" /\ proc.stage < MaxStages
  /\ prog = "window" => proc.ret = "exit0"
  /\ proc' = [proc EXCEPT !.state = "idle", !.pipe = <<>>, !.exited = FALSE,
                          !.status = "none", !.ret = "none",
                          !.stage = @ + 1,
                          !.alive = @ + (IF proc.exited THEN 0 ELSE 1)]
  /\ UNCHANGED <<runnerFrame, log>>

\* a child that outlived its invocation ends
OrphanExit ==
  /\ proc.alive > 0
  /\ proc' = [proc EXCEPT !.alive = @ - 1]
  /\ UNCHANGED <<runnerFrame, log>>

RunnerNext ==
  \/ Popen
  \/ \E line \in OutLines \cup {BadLine} : ChildWrite(line)
  \/ ChildExit
  \/ ForwardLine
  \/ ReadError
  \/ WaitReturn
  \/ NextStage
  \/ OrphanExit

SpecRunner == RunnerInit /\ [][RunnerNext]_vars

\* ------------------------------------------------ discover_console alone
\* The installations under /Applications/Audiokinetic: for each folder name
\* its Wwise.app, with Contents/MacOS as sorted(iterdir()) lists it and the
\* two launcher scripts of Contents/Tools.
MaxApps == 2       \* most installations present
MaxChildren == 2   \* most entries of the Contents/MacOS of one installation
prefer_prefixs == <<"Wwise2025", "Wwise2024", "Wwise">>
AppNames == {"Wwise2024.1", "Wwise2025.1", "Wwise2026.1"}
\* the order of str on the folder names
NameRank(n) ==
  CASE n = "Wwise2024.1" -> 1
    [] n = "Wwise2025.1" -> 2
    [] n = "Wwise2026.1" -> 3
\* glob of  {base}/{pfx}*/Wwise.app  matching the folder n
GlobMatches(pfx, n) ==
  \/ pfx = "Wwise"
  \/ pfx = "Wwise2025" /\ n = "Wwise2025.1"
  \/ pfx = "Wwise2024" /\ n = "Wwise2024.1"
\* sorted(paths, reverse=True)
RECURSIVE SortedReverse(_)
SortedReverse(S) ==
  IF S = {} THEN <<>>
  ELSE LET m == CHOOSE x \in S : \A y \in S : NameRank(y) <= NameRank(x)
       IN <<m>> \o SortedReverse(S \ {m})
RECURSIVE Candidates(_, _)
Candidates(apps, k) ==
  IF k > Len(prefer_prefixs) THEN <<>>
  ELSE SortedReverse({n \in DOMAIN apps : GlobMatches(prefer_prefixs[k], n)})
         \o Candidates(apps, k + 1)

ChildAttrs ==
  {RegularFile(NativeBin, TRUE, TRUE), RegularFile(WrapperBin, TRUE, TRUE),
   RegularFile(WrapperBin, TRUE, FALSE), RegularFile(NativeBin, FALSE, TRUE)}
Listings == UNION {[1..n -> ChildAttrs] : n \in 0..MaxChildren}
Installations ==
  {[macosExists |-> e, macos |-> l, tools |-> t, fixed |-> f, normal |-> n] :
     e \in BOOLEAN, l \in Listings, t \in BOOLEAN, f \in BOOLEAN, n \in BOOLEAN}
\* a listing needs its directory, a script needs Contents/Tools
WellFormed(a) ==
  /\ a.macos /= <<>> => a.macosExists
  /\ (a.fixed \/ a.normal) => a.tools
  /\ a.macosExists => a.macos /= <<>>
  /\ a.tools => (a.fixed \/ a.normal)
AppSets == {S \in SUBSET AppNames : Cardinality(S) <= MaxApps}
InstalledApps ==
  UNION {[S -> {a \in Installations : WellFormed(a)}] : S \in AppSets}

Found(app, kind, idx) == [app |-> app, kind |-> kind, idx |-> idx]
\* the loop over sorted(macos_dir.iterdir()): the first executable file that
\* the sniff does not reject, 0 when there is none; a file that cannot be
\* read is not rejected
SniffPasses(c) ==
  /\ c.kind = "file" /\ c.exec
  /\ ~(c.readable /\ SniffDelegates(ReadPrefix(c.content, SniffChunk)))
FirstSniffed(children) ==
  LET ok == {i \in 1..Len(children) : SniffPasses(children[i])}
  IN IF ok = {} THEN 0 ELSE CHOOSE i \in ok : \A j \in ok : i <= j
\* one turn of  for app in candidates
AppOffer(name, a) ==
  IF a.macosExists /\ FirstSniffed(a.macos) /= 0
  THEN Found(name, "binary", FirstSniffed(a.macos))
  ELSE IF a.tools /\ a.fixed THEN Found(name, "fixed", 0)
  ELSE IF a.tools /\ a.normal THEN Found(name, "plain", 0)
  ELSE NoConsole

DiscoverInit ==
  /\ RunInit
  /\ wav_dir = AbsWavDir
  /\ prog = "macos"
  /\ entry = "cli"
  /\ console = LooseBin
  /\ fs = MkFs(LooseBin :> Absent, <<>>)
  /\ projectExists = TRUE
  /\ wavKind = "dir"
  /\ tree = <<TopWav>>
  /\ platforms = <<"X">>
  /\ dry_run = FALSE
  /\ force_wine = FALSE
  /\ create_events = FALSE
  /\ event_pattern = DEFAULT_EVENT_PATTERN
  /\ auto_bankname = FALSE
  /\ waapi = "none"
  /\ logOk = TRUE
  /\ tmpOk = TRUE
  /\ \E apps \in InstalledApps : disc = [NoDisc EXCEPT !.apps = apps]
  /\ gui = NoGui

discFrame == <<inputs, cancel_flag, proc, soundbank, resolved, gui, pc, imports, evIdx,
               platIdx, popen, simulated, log, result, exitCode>>
\* the globs of discover_console; the fallback glob for an empty candidate
\* list matches nothing that the prefix "Wwise" has not matched
DiscoverGlob ==
  /\ disc.state = "idle"
  /\ disc' = [disc EXCEPT !.cands = Candidates(disc.apps, 1), !.state = "scanning"]
  /\ UNCHANGED discFrame
DiscoverApp ==
  /\ disc.state = "scanning" /\ disc.cands /= <<>>
  /\ LET name == Head(disc.cands)
         offer == AppOffer(name, disc.apps[name])
     IN disc' = IF offer /= NoConsole
                THEN [disc EXCEPT !.result = offer, !.state = "returned"]
                ELSE [disc EXCEPT !.cands = Tail(disc.cands)]
  /\ UNCHANGED discFrame
\* return ""  after the last candidate
DiscoverNone ==
  /\ disc.state = "scanning" /\ disc.cands = <<>>
  /\ disc' = [disc EXCEPT !.result = NoConsole, !.state = "returned"]
  /\ UNCHANGED discFrame
DiscoverNext ==
  \/ DiscoverGlob
  \/ DiscoverApp
  \/ DiscoverNone

SpecDiscover == DiscoverInit /\ [][DiscoverNext]_vars

\* ------------------------------------------- runs started from the window
\* App._run / GUI._run start a worker thread for every click on the run
\* button and return to the event loop; nothing keeps a second click from
\* starting a second worker while the first is running.  Each run has its
\* own Logger; thread 0 is the interactive thread, thread k the worker of
\* the k-th run.
MaxRuns == 2       \* most runs started from one window
RunTrees == {<<TopWav>>, <<TopB>>}
\* Path("/tmp/import_wwise.json"), and import.json in the directory that the
\* k-th call of tempfile.mkdtemp creates
MacTmp == <<"/tmp/import_wwise.json">>
mkdtemp(k) == <<"wwise_batch_", k, "import.json">>
ManifestPath(k) == IF prog = "macos" THEN MacTmp ELSE mkdtemp(k)
LogWrite(thread, logger) == [thread |-> thread, logger |-> logger]

TwoRunsInit ==
  /\ RunInit
  /\ disc = NoDisc
  /\ gui = NoGui
  /\ wav_dir = AbsWavDir
  /\ prog \in {"macos", "window"}
  /\ entry = "gui"
  /\ console = LooseBin
  /\ fs = MkFs(LooseBin :> RegularFile(NativeBin, TRUE, TRUE), <<>>)
  /\ projectExists = TRUE
  /\ wavKind = "dir"
  /\ tree = <<TopWav>>
  /\ platforms = <<"X">>
  /\ dry_run = FALSE
  /\ force_wine = FALSE
  /\ create_events = FALSE
  /\ event_pattern = DEFAULT_EVENT_PATTERN
  /\ auto_bankname = FALSE
  /\ waapi = "none"
  /\ logOk = TRUE
  /\ tmpOk = TRUE

guiFrame == <<inputs, cancel_flag, proc, soundbank, resolved, disc, pc, imports, evIdx,
              platIdx, popen, simulated, log, result, exitCode>>
\* the handler of the run button, for the source folder t of the form:
\* the macOS handler writes two records through the new logger itself
GuiRun(t) ==
  /\ Len(gui.runs) < MaxRuns
  /\ LET k == Len(gui.runs) + 1 IN
     gui' = [gui EXCEPT
               !.runs = Append(@, [tree |-> t, pc |-> "started",
                                   imports |-> <<>>, read |-> <<>>]),
               !.writes = IF prog = "macos"
                          THEN @ \o <<LogWrite(0, k), LogWrite(0, k)>>
                          ELSE @]
  /\ UNCHANGED guiFrame
\* worker k writes its manifest file and logs its path
WorkerBuild(k) ==
  /\ k \in 1..Len(gui.runs) /\ gui.runs[k].pc = "started"
  /\ LET t == gui.runs[k].tree
         built == IF prog = "macos" THEN generate_import_json(t)
                  ELSE _build_import_json(WalkWavs(t))
     IN
     gui' = [gui EXCEPT
               !.runs[k].imports = built,
               !.runs[k].pc = "built",
               !.files = (ManifestPath(k) :> built) @@ @,
               !.writes = Append(@, LogWrite(k, k))]
  /\ UNCHANGED guiFrame
\* the import of worker k: the console reads the file named on its command line
WorkerImport(k) ==
  /\ k \in 1..Len(gui.runs) /\ gui.runs[k].pc = "built"
  /\ gui' = [gui EXCEPT
               !.runs[k].read = gui.files[ManifestPath(k)],
               !.runs[k].pc = "imported"]
  /\ UNCHANGED guiFrame
\* the rest of the run of worker k, and its closing record
WorkerFinish(k) ==
  /\ k \in 1..Len(gui.runs) /\ gui.runs[k].pc = "imported"
  /\ gui' = [gui EXCEPT
               !.runs[k].pc = "done",
               !.writes = Append(@, LogWrite(k, k))]
  /\ UNCHANGED guiFrame
TwoRunsNext ==
  \/ \E t \in RunTrees : GuiRun(t)
  \/ \E k \in 1..MaxRuns : WorkerBuild(k)
  \/ \E k \in 1..MaxRuns : WorkerImport(k)
  \/ \E k \in 1..MaxRuns : WorkerFinish(k)

SpecTwoRuns == TwoRunsInit /\ [][TwoRunsNext]_vars

\* ================================================================ claims
\* vocabulary of the claims
ImportCmds == {"tab-delimited-import", "import"}
Preflight ==
  /\ PathExists(console)
  /\ projectExists
  /\ wavKind = "dir"
SuccessLogged ==
  \E i \in 1..Len(log) :
    log[i].ev \in {"All tasks completed successfully.", "All done successfully."}
GateBlocked ==
  \E i \in 1..Len(log) :
    log[i].ev = "Detected that the selected Wwise console delegates"
Stages == popen \o simulated
\* the run went past its pre-flight checks into the import stage
Proceeded == pc \in {"import", "events", "generate"} \/ Stages /= <<>>
\* the run's own files (log, transient manifest) can be written
Writable == logOk /\ tmpOk

\* C1: when the executable path does not exist, or the project descriptor
\* does not exist, or the source directory is missing or not a directory, the
\* run aborts: it never reaches a stage, starts no external process and does
\* not report success.
C1_PreflightAborts ==
  ~Preflight =>
    /\ popen = <<>>
    /\ simulated = <<>>
    /\ pc \in {"start", "done"}
    /\ ~SuccessLogged
    /\ result /= "True"
C1_Witness ==
  /\ prog = "macos" /\ pc = "done"
  /\ PathExists(console) /\ ~projectExists /\ wavKind = "dir"
  /\ ~dry_run


\* C2: when the import invocation returns a non-zero exit status, nothing is
\* launched after it: no derived-object creation and no generate-soundbank.
C2_ImportFailFast ==
  (/\ popen /= <<>>
   /\ popen[1].cmd \in ImportCmds
   /\ popen[1].status = "exit1") => Len(popen) = 1

\* C3: the first generate invocation that fails is the last invocation of
\* the run, and the finished run is reported failed naming that target.
C3_GenerateFailFast ==
  \A i \in 1..Len(popen) :
    (popen[i].cmd = "generate-soundbank" /\ popen[i].status = "exit1") =>
      /\ i = Len(popen)
      /\ (pc = "done" =>
            /\ ~SuccessLogged
            /\ \E k \in 1..Len(log) :
                 log[k] = Logged("ERROR: generation failed for", popen[i].arg))

\* C4: success is reported only when the import and every generate
\* invocation started and ended with exit status 0; a finished run with an
\* import or generate error returns the failure value to its caller.
StageError ==
  \E i \in 1..Len(popen) :
    /\ popen[i].cmd \in ImportCmds \cup {"generate-soundbank"}
    /\ popen[i].status /= "exit0"
C4_FaithfulOutcome ==
  /\ (SuccessLogged \/ result = "True") => ~StageError
  /\ (pc = "done" /\ StageError) => result = "False"

\* C5: when the content the safety inspection reads from the requested
\* executable contains one of the markers it looks for, the run is blocked
\* (no stage, no process) unless force_wine is set; with force_wine set the
\* inspection blocks nothing and a run that passed validation goes on to the
\* import.
GateMarkers(p) ==
  IF p.ext = ".sh" THEN {M_winewrapper, M_WwiseConsole_exe, M_wine}
  ELSE {M_winewrapper, M_WwiseConsole_exe, M_ProgramFiles1}
MarkerInspected ==
  /\ PathExists(console)
  /\ \E m \in GateMarkers(console) : Contains(GateInspected(console), m)
C5_SafetyGate ==
  (prog = "macos" /\ MarkerInspected) =>
    /\ ~force_wine =>
         /\ popen = <<>>
         /\ simulated = <<>>
         /\ pc \in {"start", "done"}
         /\ ~SuccessLogged
    /\ force_wine =>
         /\ ~GateBlocked
         /\ (Preflight /\ Writable /\ pc /= "start") => Proceeded
C5_Witness ==
  /\ prog = "macos" /\ MarkerInspected /\ ~force_wine
  /\ Preflight /\ pc = "done" /\ GateBlocked
  /\ console.ext = ""

\* C6: an existing executable whose content contains no marker at all is
\* the executable of every stage of the run (no substitution), and the
\* safety inspection never blocks it, whatever force_wine is.
AllMarkers ==
  {M_wine, M_winewrapper, M_winewrapper_exe, M_WwiseConsole_exe, M_wineloader,
   M_ProgramFiles1, M_ProgramFiles2}
MarkerFree(p) == \A m \in AllMarkers : ~Contains(fs.attr[p].content, m)
C6_NativeRunsAsIs ==
  (prog = "macos" /\ IsFile(console) /\ MarkerFree(console)) =>
    /\ ConsoleToRun = console
    /\ \A i \in 1..Len(Stages) : Stages[i].exe = console
    /\ ~GateBlocked
    /\ (Preflight /\ Writable /\ pc /= "start") => Proceeded
C6_Witness ==
  /\ prog = "macos" /\ IsFile(console) /\ MarkerFree(console)
  /\ InBundle(console) /\ fs.macosExists
  /\ ~force_wine /\ Preflight
  /\ popen /= <<>> /\ popen[1].exe = console

\* C7: an executable of the bundle's native-binary directory that a stage
\* runs in place of the requested one contains no marker.
ResolverMarkers ==
  {M_wine, M_winewrapper, M_winewrapper_exe, M_WwiseConsole_exe, M_ProgramFiles2}
C7_SubstituteIsClean ==
  prog = "macos" =>
    \A i \in 1..Len(Stages) :
      (Stages[i].exe /= console /\ Stages[i].exe.dir = MacOSDir) =>
        \A m \in ResolverMarkers : ~Contains(fs.attr[Stages[i].exe].content, m)

\* C8: a dry run starts no process; each of its stages (the import, each
\* derived-object creation, each target generation) leaves one simulated
\* record instead.
C8_DryRunLaunchesNothing ==
  dry_run =>
    /\ popen = <<>>
    /\ \A i \in 1..Len(simulated) : simulated[i].status = "dry-run"
    /\ (pc = "done" /\ Proceeded) =>
         Len(simulated) = 1 + Len(imports) + Len(platforms)
C8_Witness ==
  /\ dry_run /\ pc = "done"
  /\ Len(imports) >= 1 /\ Len(platforms) >= 2
  /\ Len(simulated) = 1 + Len(imports) + Len(platforms)

\* C9 as stated: a finished dry run with an existing executable, an existing
\* project and a source directory (and a log and a manifest file it can
\* write), and distinct targets, has exactly one
\* simulated import record and one simulated generate record per target in
\* request order, started nothing, and reported success.
IsImportRecord(r) == r.cmd \in ImportCmds
IsGenerateRecord(r) == r.cmd = "generate-soundbank"
Distinct(q) == \A i, j \in 1..Len(q) : (i /= j) => (q[i] /= q[j])
DryRunRecord ==
  /\ Len(SelectSeq(simulated, IsImportRecord)) = 1
  /\ LET g == SelectSeq(simulated, IsGenerateRecord) IN
       /\ Len(g) = Len(platforms)
       /\ \A i \in 1..Len(g) : g[i].arg = <<platforms[i]>>
  /\ \A i \in 1..Len(simulated) : simulated[i].status = "dry-run"
  /\ popen = <<>>
  /\ SuccessLogged
C10_EmptySourceFails ==
  (wavKind = "dir" /\ WalkWavs(tree) = <<>>) =>
    /\ popen = <<>>
    /\ ~SuccessLogged

\* Exit codes of the Windows automation entry point.
EXIT_OK == 0
EXIT_FAILED == 1
EXIT_NO_CONSOLE == 2
EXIT_NO_WAV == 3

\* C11: a finished command-line run exits with 0 exactly when the run
\* succeeded (success reported, no import or generate error), with the
\* missing-executable code when the executable does not exist, with the
\* no-source code when the source holds no audio file, and with the failure
\* code when a stage failed; the three codes are non-zero and differ.
RunSucceeded == SuccessLogged /\ ~StageError
NoSource == wavKind /= "dir" \/ WalkWavs(tree) = <<>>
C11_ExitCodes ==
  (entry = "cli" /\ pc = "done") =>
    /\ (exitCode = EXIT_OK) <=> RunSucceeded
    /\ ~PathExists(console) => exitCode = EXIT_NO_CONSOLE
    /\ (IsFile(console) /\ NoSource) => exitCode = EXIT_NO_WAV
    /\ StageError => exitCode = EXIT_FAILED
    /\ Cardinality({EXIT_OK, EXIT_FAILED, EXIT_NO_CONSOLE, EXIT_NO_WAV}) = 4

\* The characters of the names that occur, as Unicode code points, and the
\* full path of a source file below the source folder as one string.
Codes(piece) ==
  CASE piece = "a" -> <<97>>
    [] piece = "b" -> <<98>>
    [] piece = "c" -> <<99>>
    [] piece = "notes" -> <<110, 111, 116, 101, 115>>
    [] piece = "sub" -> <<115, 117, 98>>
    [] piece = "deep" -> <<100, 101, 101, 112>>
    [] piece = ".wav" -> <<46, 119, 97, 118>>
    [] piece = ".WAV" -> <<46, 87, 65, 86>>
    [] piece = ".txt" -> <<46, 116, 120, 116>>
    [] piece = "/" -> <<47>>
RECURSIVE Flatten(_)
Flatten(pieces) ==
  IF pieces = <<>> THEN <<>> ELSE Codes(Head(pieces)) \o Flatten(Tail(pieces))
FullPath(f) == Flatten(Join(f.dir \o <<f.stem>>, "/") \o <<f.ext>>)
\* x < y for two strings, code point by code point
RECURSIVE StrLess(_, _)
StrLess(x, y) ==
  IF y = <<>> THEN FALSE
  ELSE IF x = <<>> THEN TRUE
  ELSE IF Head(x) /= Head(y) THEN Head(x) < Head(y)
  ELSE StrLess(Tail(x), Tail(y))
\* every order in which the file system may list the files of the tree
Enumerations(t) ==
  {u \in ManifestTrees : Len(u) = Len(t) /\ {u[i] : i \in 1..Len(u)} = {t[i] : i \in 1..Len(t)}}
Manifest(t) ==
  IF prog = "macos" THEN generate_import_json(t) ELSE _build_import_json(WalkWavs(t))

\* C12: the manifest built from a tree is the same entry sequence for every
\* order in which the file system lists the tree's files, and its entries
\* are in ascending order of their full source path.
C12_ManifestDeterministic ==
  pc = "built" =>
    /\ \A u \in Enumerations(tree) : Manifest(u) = imports
    /\ \A i, j \in 1..Len(imports) :
         (i < j) => StrLess(FullPath(imports[i].audioFile), FullPath(imports[j].audioFile))

\* the folders of a relative location as object-path segments
RECURSIVE Segments(_)
Segments(dir) ==
  IF dir = <<>> THEN <<>> ELSE <<"\\", Head(dir)>> \o Segments(Tail(dir))

\* C13: the nested layout (macOS tool) gives the file at d/base.ext the
\* destination <root>\<d, its separators as backslashes>\<base>, and
\* <root>\<base> at the top level; the flat layout (Windows tool) gives
\* <root>\<base> whatever d is.
C13_Layout ==
  pc = "built" =>
    \A i \in 1..Len(imports) :
      LET f == imports[i].audioFile
          path == imports[i].objectPath
      IN /\ prog = "macos" =>
              path = HierarchyRoot \o Segments(f.dir) \o <<"\\", f.stem>>
         /\ prog = "window" =>
              path = DEFAULT_OBJECT_ROOT \o <<"\\", f.stem>>
C13_Witness ==
  /\ pc = "built" /\ prog = "macos"
  /\ \E i \in 1..Len(imports) :
       /\ imports[i].audioFile = DeepWav
       /\ imports[i].objectPath =
            <<"\\", "Actor-Mixer Hierarchy", "\\", "Auto", "\\", "sub", "\\", "deep", "\\", "c">>
  /\ \E i \in 1..Len(imports) : imports[i].audioFile.dir = <<>>

\* C14: no two entries of a manifest have the same destination object path.
C14_UniqueDestinations ==
  pc = "built" =>
    \A i, j \in 1..Len(imports) :
      (i /= j) => imports[i].objectPath /= imports[j].objectPath

\* derived-object creation as the run recorded it: one process per entry
\* (macOS tool), one RPC call per entry (Windows tool)
IsCreateRecord(r) == r.cmd = "create-new"
IsEventLog(r) == r.ev \in {"Event created", "Event failed"}
CreationAttempts ==
  IF prog = "window" THEN Len(SelectSeq(log, IsEventLog))
  ELSE Len(SelectSeq(Stages, IsCreateRecord))
CreationFailed ==
  IF prog = "window" THEN \E i \in 1..Len(log) : log[i].ev = "Event failed"
  ELSE \E i \in 1..Len(Stages) :
         IsCreateRecord(Stages[i]) /\ Stages[i].status \in {"exit1", "raise"}
CreationOver == pc \in {"generate", "win_generate", "done"}
GenerateCount == Len(SelectSeq(Stages, IsGenerateRecord))

\* C15: when the creation of a derived object fails for an entry, creation
\* is still attempted for every entry, the generate stage still starts, and
\* a finished run without an import or generate error has generated every
\* target and is reported successful.
C15_BestEffort ==
  (create_events /\ CreationFailed) =>
    /\ CreationOver => CreationAttempts = Len(imports)
    /\ (pc = "done") => GenerateCount >= 1
    /\ (pc = "done" /\ ~StageError) =>
         /\ GenerateCount = Len(platforms)
         /\ SuccessLogged
         /\ result /= "False"
C15_Witness ==
  /\ prog = "window" /\ pc = "done" /\ result = "True"
  /\ Len(imports) = 2 /\ Len(platforms) = 2
  /\ \E i, j \in 1..Len(log) :
       i < j /\ log[i].ev = "Event failed" /\ log[j].ev = "Event created"
  /\ GenerateCount = 2

\* C16: in the Windows tool, when derived objects are asked for and the RPC
\* client is not installed or its connection fails, the reason is logged,
\* no creation is attempted, the generate stage starts, and the finished
\* run is successful exactly when no import or generate invocation failed.
SkipLogged ==
  \E i \in 1..Len(log) :
    log[i].ev \in {"WAAPI not available; skip event creation.", "WAAPI connection failed"}
C16_SoftDegrade ==
  (/\ prog = "window" /\ create_events /\ waapi \in {"none", "down"}
   /\ popen /= <<>> /\ popen[1].status = "exit0"
   /\ pc \in {"win_generate", "done"}) =>
    /\ SkipLogged
    /\ CreationAttempts = 0
    /\ (pc = "done") =>
         /\ GenerateCount >= 1
         /\ (result = "True") <=> ~StageError
         /\ result \in {"True", "False"}
C16_Witness ==
  /\ prog = "window" /\ create_events /\ waapi = "down"
  /\ pc = "done" /\ result = "True"
  /\ \E i \in 1..Len(log) : log[i].ev = "WAAPI connection failed"
  /\ GenerateCount = Len(platforms)

\* C17: a launch that raises is caught and logged as the failure of its
\* stage, no exception leaves the run, and when the stage is the import or
\* a generate nothing is launched after it and the finished run is failed.
LaunchFailureLogged ==
  \E k \in 1..Len(log) : log[k].ev \in {"Error running", "Exception"}
C17_LaunchFailure ==
  \A i \in 1..Len(popen) :
    (popen[i].status = "raise") =>
      /\ LaunchFailureLogged
      /\ result /= "raised"
      /\ (popen[i].cmd \in ImportCmds \cup {"generate-soundbank"}) =>
           /\ i = Len(popen)
           /\ (pc = "done") => (~SuccessLogged /\ result = "False")

\* the --name argument of a create-new invocation
CreateName(r) ==
  LET k == CHOOSE k \in 1..Len(r.arg) : r.arg[k] = "--target" IN SubSeq(r.arg, 2, k - 1)

\* C18: the i-th derived object that is created is named by the event name
\* pattern with its placeholder replaced by the base name of the i-th
\* manifest entry (Play_<name> by default), and once creation is over there
\* has been exactly one creation for each entry.
C18_DerivedObjectNames ==
  /\ (prog = "macos") =>
       LET c == SelectSeq(Stages, IsCreateRecord) IN
       /\ \A i \in 1..Len(c) :
            CreateName(c[i]) = EventName(DEFAULT_EVENT_PATTERN, imports[i].audioFile.stem)
       /\ (CreationOver /\ Stages /= <<>>) => Len(c) = Len(imports)
  /\ (prog = "window") =>
       LET e == SelectSeq(log, IsEventLog) IN
       /\ \A i \in 1..Len(e) :
            e[i].arg = EventName(event_pattern, imports[i].audioFile.stem)
       /\ (/\ create_events /\ waapi = "up" /\ CreationOver
           /\ popen /= <<>> /\ popen[1].status = "exit0") => Len(e) = Len(imports)

\* C19: once the cancellation flag of a run is set, no step of the run
\* starts a further stage: no process is launched and the run's position
\* moves only to its end.
C19_Cancellation ==
  [][cancel_flag => (popen' = popen /\ pc' \in {pc, "done"})]_vars

\* C20: when the runner has returned, the log sink holds every line the
\* child wrote (trimmed of surrounding white space), in the order written,
\* and the value the runner returned is the child's exit status.
IsLineLog(r) == r.ev = "line"
Forwarded == SelectSeq(log, IsLineLog)
C20_StreamingRunner ==
  (proc.state = "returned") =>
    /\ Len(Forwarded) = Len(proc.emitted)
    /\ \A i \in 1..Len(Forwarded) : Forwarded[i].arg = strip(proc.emitted[i])
    /\ proc.ret = proc.status

\* C21: with auto bank naming on, the soundbank name the Windows worker
\* passes to its generate-soundbank commands is the name of the input
\* folder, wherever below that folder the audio files are.
C21_AutoBankName ==
  (prog = "window" /\ auto_bankname /\ GenerateCount >= 1) =>
    soundbank = InputFolderName

\* C22: at most one child process of a run is alive at any time: when an
\* invocation is under way, no child of an earlier invocation is still alive.
ChildrenAlive ==
  proc.alive + (IF proc.state = "running" /\ ~proc.exited THEN 1 ELSE 0)
C22_Sequential ==
  /\ ChildrenAlive <= 1
  /\ (proc.state = "running") => proc.alive = 0

\* C23: in one run the import command is launched at most once and the
\* generate command at most once for each target identifier.
GenerateLaunches(t) ==
  {i \in 1..Len(popen) : IsGenerateRecord(popen[i]) /\ popen[i].arg = <<t>>}
C23_SinglePass ==
  /\ Len(SelectSeq(popen, IsImportRecord)) <= 1
  /\ \A t \in Targets \cup {"macOS"} : Cardinality(GenerateLaunches(t)) <= 1

MarkerVerdicts(c) ==
  {ScriptDelegates(c),
   BinaryDelegates(ReadPrefix(c, ResolveChunk)),
   ~SiblingIsClean(ReadPrefix(c, ResolveChunk)),
   GateScript(c),
   GateBinary(ReadPrefix(c, GateChunk)),
   SniffDelegates(ReadPrefix(c, SniffChunk))}
\* C25: the resolver (script and binary branch), the sibling filter, the
\* safety gate and the discovery sniff give the same verdict on every
\* readable file: one marker set over one bounded prefix
C25_OneMarkerSet ==
  \A f \in Files :
    CanRead(f) => Cardinality(MarkerVerdicts(fs.attr[f].content)) = 1

\* an executable file none of whose bytes belong to a marker, what an
\* installation offers, and the rank of its folder name in the prefix list
UsableBin(c) ==
  /\ c.kind = "file" /\ c.exec
  /\ \A m \in AllMarkers : ~Contains(c.content, m)
HasUsableBin(a) == \E i \in 1..Len(a.macos) : UsableBin(a.macos[i])
Offers(a) == HasUsableBin(a) \/ a.fixed \/ a.normal
PrefixIndex(n) ==
  CHOOSE k \in 1..Len(prefer_prefixs) :
    /\ GlobMatches(prefer_prefixs[k], n)
    /\ \A j \in 1..(k - 1) : ~GlobMatches(prefer_prefixs[j], n)
\* C26: discover_console returns, from the first installation in prefix
\* order that offers anything, a marker-free executable of Contents/MacOS if
\* it has one, otherwise the fixed launcher script, otherwise the plain one;
\* it returns "" exactly when no installation offers anything
C26_DiscoveryPreference ==
  disc.state = "returned" =>
    LET offering == {n \in DOMAIN disc.apps : Offers(disc.apps[n])} IN
    IF offering = {} THEN disc.result = NoConsole
    ELSE LET n == CHOOSE x \in offering :
                    \A y \in offering : PrefixIndex(x) <= PrefixIndex(y)
             a == disc.apps[n]
         IN /\ disc.result.app = n
            /\ IF HasUsableBin(a)
               THEN /\ disc.result.kind = "binary"
                    /\ UsableBin(a.macos[disc.result.idx])
               ELSE IF a.fixed THEN disc.result.kind = "fixed"
               ELSE disc.result.kind = "plain"

\* C27: the manifest has exactly one entry for every file of the source
\* tree, at any depth, whose suffix is .wav in any letter case, no entry for
\* any other file, and the source path of every entry is absolute, also when
\* the source directory was given as a relative path
AudioSuffixes == {".wav", ".WAV", ".Wav"}
C27_ManifestComplete ==
  pc = "built" =>
    /\ \A k \in 1..Len(tree) :
         (tree[k].ext \in AudioSuffixes) =>
           Cardinality({i \in 1..Len(imports) : imports[i].audioFile = tree[k]}) = 1
    /\ \A i \in 1..Len(imports) :
         /\ imports[i].audioFile.ext \in AudioSuffixes
         /\ \E k \in 1..Len(tree) : tree[k] = imports[i].audioFile
         /\ isabs(imports[i].full)

\* C28: every record that goes through the logger of a run is written by
\* the worker thread of that run, never by the interactive thread, also
\* while two runs of the one window are in progress
C28_LogOwnership ==
  \A i \in 1..Len(gui.writes) : gui.writes[i].thread = gui.writes[i].logger

\* C29: the manifest file that the import of a run reads holds the entries
\* that this run built, under every interleaving of two runs
C29_ManifestIsolation ==
  \A k \in 1..Len(gui.runs) :
    (gui.runs[k].pc \in {"imported", "done"}) =>
      gui.runs[k].read = gui.runs[k].imports

\* C30: without force_wine, the executable of every command that a run
\* starts contains no marker, also when the requested executable could not
\* be read for the safety inspection
C30_NoDelegateLaunched ==
  (prog = "macos" /\ ~force_wine) =>
    \A i \in 1..Len(popen) :
      (popen[i].status /= "raise") => MarkerFree(popen[i].exe)

====
